---- MODULE Spec2Model ----
(***************************************************************************)
(* Model of the receiver process of ping-pong-axum                         *)
(* (src/receiver/src/main.rs): the supervisor `main` with its JoinSet of   *)
(* three tasks (frontend listener, ping_srv listener, signal watcher), the *)
(* shared CancellationToken, the tokio watch channel holding the ping      *)
(* count, the POST / handler `ping` and the per-connection websocket loop  *)
(* `events_callback`.                                                      *)
(***************************************************************************)
EXTENDS Integers, Sequences, FiniteSets, TLC

\* usize::MAX scaled down, so that saturating_add reaches its cap.
MAX == 2
\* Number of POST / requests the environment issues.
MaxPings == 3

\* Websocket clients of GET /events: connection slots, and the slots that are
\* used when a single client connects.
Subs == {1, 2}
Solo == {1}

Listeners == {"frontend", "ping_srv"}
Tasks == {"frontend", "ping_srv", "signal"}
Signals == {"SIGINT", "SIGTERM"}

VARIABLES
    task,         \* task[t]: position / outcome of each task of the JoinSet
    binds,        \* binds[l]: calls of TcpListener::bind made by listener l
    token,        \* the CancellationToken: TRUE once cancelled
    cancelCalls,  \* number of calls of cancel.cancel()
    delivered,    \* signals the platform has delivered to the watcher's streams
    joinQueue,    \* finished tasks join_next() has not returned yet, in completion order
    mainResult,   \* "running", or what main returned
    mainErrOf,    \* the task whose failure main returned ("none" otherwise)
    counter,      \* value held by the watch channel
    version,      \* version of the watch channel
    pingInFlight, \* POST / requests accepted whose handler has not run
    pingDone,     \* POST / requests completed
    pc,           \* pc[s]: position of subscriber s
    seen,         \* seen[s]: version its watch::Receiver has marked seen
    count,        \* count[s]: the local `count` of events_callback
    lastSent,     \* lastSent[s]: the value s sent last (NoValue before its first message)
    nSent,        \* nSent[s]: number of messages s has sent
    since,        \* since[s]: number of increments run since events() ran for s
    inSync        \* inSync[s]: every increment since s connected came after s sent the previous value

vars == <<task, binds, token, cancelCalls, delivered, joinQueue, mainResult,
          mainErrOf, counter, version, pingInFlight, pingDone, pc, seen,
          count, lastSent, nSent, since, inSync>>

supVars == <<task, binds, token, cancelCalls, delivered, joinQueue, mainResult, mainErrOf>>
chanVars == <<counter, version, pingInFlight, pingDone>>
subVars == <<pc, seen, count, lastSent, nSent, since, inSync>>

Min(a, b) == IF a < b THEN a ELSE b
NoValue == -1

Running == {"start", "serving", "draining", "select", "sigint_only"}
Failures == {"bind_err", "panic"}
InLoop == {"start", "send", "wait"}

\* async fn main has not returned: the runtime and its tasks are alive.
ProcessAlive == mainResult = "running"

\* watch::channel(0): the stored ping_count_rx keeps the initial version forever.
InitialVersion == 0

Init ==
    /\ task = [t \in Tasks |-> "start"]
    /\ binds = [l \in Listeners |-> 0]
    /\ token = FALSE
    /\ cancelCalls = 0
    /\ delivered = {}
    /\ joinQueue = <<>>
    /\ mainResult = "running"
    /\ mainErrOf = "none"
    /\ counter = 0
    /\ version = InitialVersion
    /\ pingInFlight = 0
    /\ pingDone = 0
    /\ pc = [s \in Subs |-> "idle"]
    /\ seen = [s \in Subs |-> InitialVersion]
    /\ count = [s \in Subs |-> 0]
    /\ lastSent = [s \in Subs |-> NoValue]
    /\ nSent = [s \in Subs |-> 0]
    /\ since = [s \in Subs |-> 0]
    /\ inSync = [s \in Subs |-> TRUE]

(***************************************************************************)
(* The supervisor: main, the JoinSet, the token and the signal watcher.    *)
(***************************************************************************)

\* A task that completes (with Ok, Err or a panic) is handed to join_next()
\* in completion order.
Finish(q, t) == Append(q, t)

\* The token left as it is: cancel.cancel() not called.
CancelOmitted(tok) == tok

\* A cancel() that flips the token: a second call would re-arm it.
CancelToggle(tok) == ~tok

\* cancel.cancel()
Cancel(tok) == TRUE

\* TcpListener::bind(..).await?: on failure `?` makes the listener return the
\* error at once (r = "bind_err"); otherwise it goes on to serve.
ListenerStart(l, r) ==
    /\ ProcessAlive
    /\ task[l] = "start"
    /\ binds' = [binds EXCEPT ![l] = @ + 1]
    /\ IF r = "ok"
       THEN /\ task' = [task EXCEPT ![l] = "serving"]
            /\ joinQueue' = joinQueue
       ELSE /\ task' = [task EXCEPT ![l] = r]
            /\ joinQueue' = Finish(joinQueue, l)
    /\ UNCHANGED <<token, cancelCalls, delivered, mainResult, mainErrOf>>
    /\ UNCHANGED <<chanVars, subVars>>

\* Requests of listener l that were accepted and are not yet answered.
InFlight(l) ==
    IF l = "ping_srv"
    THEN pingInFlight
    ELSE Cardinality({s \in Subs : pc[s] = "request"})

\* with_graceful_shutdown: cancel.cancelled() resolves, the listener stops
\* accepting.
ListenerShutdown(l) ==
    /\ ProcessAlive
    /\ task[l] = "serving"
    /\ token
    /\ task' = [task EXCEPT ![l] = "draining"]
    /\ UNCHANGED <<binds, token, cancelCalls, delivered, joinQueue, mainResult, mainErrOf>>
    /\ UNCHANGED <<chanVars, subVars>>

\* A shutdown that does not wait for the accepted requests.
DrainSkipped(l) == TRUE

\* The graceful shutdown is over once no accepted request is left.
DrainDone(l) == InFlight(l) = 0

\* axum::serve(..).with_graceful_shutdown(..).await? returns; Ok(()).
ListenerStop(l) ==
    /\ ProcessAlive
    /\ task[l] = "draining"
    /\ DrainDone(l)
    /\ task' = [task EXCEPT ![l] = "ok"]
    /\ joinQueue' = Finish(joinQueue, l)
    /\ UNCHANGED <<binds, token, cancelCalls, delivered, mainResult, mainErrOf>>
    /\ UNCHANGED <<chanVars, subVars>>

\* First poll of the watcher task: shutdown_signal registers SIGTERM
\* (signal(SignalKind::terminate())) and SIGINT (ctrl_c()).  A failed SIGTERM
\* registration leaves it waiting for SIGINT only; a failed ctrl_c() is logged
\* and sigint() returns, so shutdown_signal returns and the task cancels the
\* token and finishes in the same poll.
WatcherStart(termOk, intOk) ==
    /\ ProcessAlive
    /\ task["signal"] = "start"
    /\ IF intOk
       THEN /\ task' = [task EXCEPT !["signal"] = IF termOk THEN "select" ELSE "sigint_only"]
            /\ UNCHANGED <<token, cancelCalls, joinQueue>>
       ELSE /\ task' = [task EXCEPT !["signal"] = "ok"]
            /\ token' = Cancel(token)
            /\ cancelCalls' = cancelCalls + 1
            /\ joinQueue' = Finish(joinQueue, "signal")
    /\ UNCHANGED <<binds, delivered, mainResult, mainErrOf>>
    /\ UNCHANGED <<chanVars, subVars>>

\* A degraded watcher that still reacts to SIGTERM.
RegisteredBoth ==
    IF task["signal"] \in {"select", "sigint_only"} THEN {"SIGINT", "SIGTERM"} ELSE {}

\* A watcher that is armed again after it has completed.
RegisteredAgain ==
    IF task["signal"] \in {"select", "sigint_only", "ok"} THEN {"SIGINT", "SIGTERM"} ELSE {}

\* The notifications the watcher has a stream for.
Registered ==
    CASE task["signal"] = "select" -> {"SIGINT", "SIGTERM"}
      [] task["signal"] = "sigint_only" -> {"SIGINT"}
      [] OTHER -> {}

\* The platform delivers a notification the watcher is waiting for.
Deliver(sig) ==
    /\ ProcessAlive
    /\ sig \notin delivered
    /\ sig \in Registered
    /\ delivered' = delivered \cup {sig}
    /\ UNCHANGED <<task, binds, token, cancelCalls, joinQueue, mainResult, mainErrOf>>
    /\ UNCHANGED <<chanVars, subVars>>

\* shutdown_signal().await returns (select of sigterm.recv() and sigint(), or
\* sigint() alone); then cancel.cancel(); Ok(()).
WatcherComplete ==
    /\ ProcessAlive
    /\ Registered \cap delivered # {}
    /\ task' = [task EXCEPT !["signal"] = "ok"]
    /\ token' = Cancel(token)
    /\ cancelCalls' = cancelCalls + 1
    /\ joinQueue' = Finish(joinQueue, "signal")
    /\ UNCHANGED <<binds, delivered, mainResult, mainErrOf>>
    /\ UNCHANGED <<chanVars, subVars>>

\* A task panics: its JoinHandle yields a JoinError.
Panic(t) ==
    /\ ProcessAlive
    /\ task[t] \in Running
    /\ task' = [task EXCEPT ![t] = "panic"]
    /\ joinQueue' = Finish(joinQueue, t)
    /\ UNCHANGED <<binds, token, cancelCalls, delivered, mainResult, mainErrOf>>
    /\ UNCHANGED <<chanVars, subVars>>

\* join.wrap_err("failed to join task")? without and_then(identity): the
\* listener's own Result is discarded.
JoinOutcomeDiscarded(r) == IF r = "panic" THEN "join_err" ELSE "ok"

\* join.and_then(identity) without wrap_err: the JoinError unwrapped.
JoinOutcomeUnwrapped(r) == r

\* join.wrap_err("failed to join task").and_then(identity): a JoinError is
\* wrapped, a listener's own error is passed through.
JoinOutcome(r) == IF r = "panic" THEN "join_err" ELSE r

\* The remaining tasks left running (a JoinSet that is leaked or detached).
KeepJoinSet(tk) == tk

\* main returns: the JoinSet is dropped, which aborts the tasks still in it.
DropJoinSet(tk) == [t \in Tasks |-> IF tk[t] \in Running THEN "aborted" ELSE tk[t]]

\* The detached connection tasks left as they are.
KeepRuntime(p) == p

\* main returns: the runtime shuts down, which drops the detached
\* connection tasks.
DropRuntime(p) ==
    [s \in Subs |-> IF p[s] \in InLoop \cup {"request"} THEN "dropped" ELSE p[s]]

\* while let Some(join) = tasks.join_next().await { join...?; }  Ok(())
JoinNext ==
    /\ ProcessAlive
    /\ joinQueue # <<>>
    /\ LET t == Head(joinQueue)
           rest == Tail(joinQueue)
       IN /\ joinQueue' = rest
          /\ IF task[t] = "ok"
             THEN IF rest = <<>> /\ \A u \in Tasks : task[u] \notin Running
                  THEN /\ mainResult' = "ok"
                       /\ pc' = DropRuntime(pc)
                       /\ UNCHANGED <<task, mainErrOf>>
                  ELSE UNCHANGED <<task, mainResult, mainErrOf, pc>>
             ELSE /\ mainResult' = JoinOutcome(task[t])
                  /\ mainErrOf' = t
                  /\ task' = DropJoinSet(task)
                  /\ pc' = DropRuntime(pc)
    /\ UNCHANGED <<binds, token, cancelCalls, delivered>>
    /\ UNCHANGED <<chanVars, seen, count, lastSent, nSent, since, inSync>>

\* The exit code of the process once main has returned.
ExitCode == IF mainResult = "ok" THEN 0 ELSE 1

(***************************************************************************)
(* The watch channel, the POST / handler and the websocket loop.           *)
(***************************************************************************)

\* count.wrapping_add(1)
WrappingAdd(c) == (c + 1) % (MAX + 1)

\* count + 1 with no cap.
UncappedAdd(c) == c + 1

\* count.saturating_add(1)
SatAdd(c) == IF c < MAX THEN c + 1 ELSE MAX

\* A read-modify-write of the value that is not atomic: the update is lost
\* when another handler is in flight.
SendRacy(c, others) == IF others > 0 THEN c ELSE SatAdd(c)

\* send_modify runs the closure under the channel's write lock: the other
\* handlers in flight do not matter.
SendModify(c, others) == SatAdd(c)

\* A send that leaves the channel's version as it was (send_if_modified
\* whose closure returns false).
SameVersion(v) == v

\* send_modify marks the channel changed on every call, whatever the closure
\* did to the value.
NextVersion(v) == v + 1

\* The subscriber has sent the channel's current value and waits for the next.
Synced(s) ==
    /\ pc[s] = "wait"
    /\ seen[s] = version
    /\ nSent[s] > 0

\* The update listener accepts a POST / request.
PingAccept ==
    /\ ProcessAlive
    /\ task["ping_srv"] = "serving"
    /\ pingInFlight + pingDone < MaxPings
    /\ pingInFlight' = pingInFlight + 1
    /\ UNCHANGED <<counter, version, pingDone>>
    /\ UNCHANGED <<supVars, subVars>>

\* ping: state.ping_count_tx.send_modify(|count| *count = count.saturating_add(1)),
\* under the channel's write lock; then the empty response is written.
Ping ==
    /\ ProcessAlive
    /\ pingInFlight > 0
    /\ counter' = SendModify(counter, pingInFlight - 1)
    /\ version' = NextVersion(version)
    /\ pingInFlight' = pingInFlight - 1
    /\ pingDone' = pingDone + 1
    /\ since' = [s \in Subs |-> IF pc[s] \in InLoop THEN since[s] + 1 ELSE since[s]]
    /\ inSync' = [s \in Subs |-> inSync[s] /\ (pc[s] \in InLoop => Synced(s))]
    /\ UNCHANGED <<pc, seen, count, lastSent, nSent>>
    /\ UNCHANGED supVars

\* The stream listener accepts a GET /events request (clients are numbered
\* in the order they connect).
EventsAccept(s) ==
    /\ ProcessAlive
    /\ task["frontend"] = "serving"
    /\ pc[s] = "idle"
    /\ \A r \in Subs : r < s => pc[r] # "idle"
    /\ pc' = [pc EXCEPT ![s] = "request"]
    /\ UNCHANGED <<seen, count, lastSent, nSent, since, inSync>>
    /\ UNCHANGED <<supVars, chanVars>>

\* events: rx = state.ping_count_rx.clone() copies the stored receiver, whose
\* seen version is still the initial one; on_upgrade spawns events_callback.
Events(s) ==
    /\ ProcessAlive
    /\ pc[s] = "request"
    /\ pc' = [pc EXCEPT ![s] = "start"]
    /\ seen' = [seen EXCEPT ![s] = InitialVersion]
    /\ since' = [since EXCEPT ![s] = 0]
    /\ UNCHANGED <<count, lastSent, nSent, inSync>>
    /\ UNCHANGED <<supVars, chanVars>>

\* rx.borrow(): the value is read and the version seen stays as it was.
BorrowOnly(old, cur) == old

\* rx.borrow_and_update(): the version the receiver has seen afterwards.
BorrowAndUpdate(old, cur) == cur

\* A first read that takes the value the stored receiver was created with
\* instead of the channel's current value.
SubReadInitial(s) ==
    /\ ProcessAlive
    /\ pc[s] = "start"
    /\ pc' = [pc EXCEPT ![s] = "send"]
    /\ count' = [count EXCEPT ![s] = 0]
    /\ seen' = [seen EXCEPT ![s] = BorrowAndUpdate(seen[s], version)]
    /\ UNCHANGED <<lastSent, nSent, since, inSync>>
    /\ UNCHANGED <<supVars, chanVars>>

\* First iteration of events_callback: count = rx.borrow_and_update().clone().
SubRead(s) ==
    /\ ProcessAlive
    /\ pc[s] = "start"
    /\ pc' = [pc EXCEPT ![s] = "send"]
    /\ count' = [count EXCEPT ![s] = counter]
    /\ seen' = [seen EXCEPT ![s] = BorrowAndUpdate(seen[s], version)]
    /\ UNCHANGED <<lastSent, nSent, since, inSync>>
    /\ UNCHANGED <<supVars, chanVars>>

\* A loop whose failed send cancels the shared token.
SubSendFatal(s, ok) ==
    /\ ProcessAlive
    /\ pc[s] = "send"
    /\ IF ok
       THEN /\ lastSent' = [lastSent EXCEPT ![s] = count[s]]
            /\ nSent' = [nSent EXCEPT ![s] = @ + 1]
            /\ pc' = [pc EXCEPT ![s] = "wait"]
            /\ UNCHANGED token
       ELSE /\ pc' = [pc EXCEPT ![s] = "exited"]
            /\ token' = TRUE
            /\ UNCHANGED <<lastSent, nSent>>
    /\ UNCHANGED <<seen, count, since, inSync>>
    /\ UNCHANGED <<task, binds, cancelCalls, delivered, joinQueue, mainResult, mainErrOf>>
    /\ UNCHANGED chanVars

\* A loop that marks the channel unchanged (rx.mark_unchanged()) after each
\* send, before it waits.
SubSendMarkUnchanged(s, ok) ==
    /\ ProcessAlive
    /\ pc[s] = "send"
    /\ IF ok
       THEN /\ lastSent' = [lastSent EXCEPT ![s] = count[s]]
            /\ nSent' = [nSent EXCEPT ![s] = @ + 1]
            /\ pc' = [pc EXCEPT ![s] = "wait"]
            /\ seen' = [seen EXCEPT ![s] = version]
       ELSE /\ pc' = [pc EXCEPT ![s] = "exited"]
            /\ UNCHANGED <<lastSent, nSent, seen>>
    /\ UNCHANGED <<count, since, inSync>>
    /\ UNCHANGED <<supVars, chanVars>>

\* socket.send(Message::Text(count.to_string())).await: it succeeds while the
\* client holds the connection open (ok); an error ends the loop.
SubSend(s, ok) ==
    /\ ProcessAlive
    /\ pc[s] = "send"
    /\ IF ok
       THEN /\ lastSent' = [lastSent EXCEPT ![s] = count[s]]
            /\ nSent' = [nSent EXCEPT ![s] = @ + 1]
            /\ pc' = [pc EXCEPT ![s] = "wait"]
       ELSE /\ pc' = [pc EXCEPT ![s] = "exited"]
            /\ UNCHANGED <<lastSent, nSent>>
    /\ UNCHANGED <<seen, count, since, inSync>>
    /\ UNCHANGED <<supVars, chanVars>>

\* The watch::Sender lives in the AppState held by the two listeners' routers
\* and by the requests they are serving: it is dropped with the last of them.
SenderDropped ==
    /\ \A l \in Listeners : task[l] \notin Running
    /\ \A l \in Listeners : InFlight(l) = 0

\* A notification that is consumed by the first waiter to wake (notify_one):
\* the other waiters are marked as having seen the change.
SubChangedConsume(s) ==
    /\ ProcessAlive
    /\ pc[s] = "wait"
    /\ IF seen[s] # version
       THEN /\ pc' = [pc EXCEPT ![s] = "send"]
            /\ count' = [count EXCEPT ![s] = counter]
            /\ seen' = [r \in Subs |-> IF r = s \/ pc[r] = "wait" THEN version ELSE seen[r]]
       ELSE /\ SenderDropped
            /\ pc' = [pc EXCEPT ![s] = "exited"]
            /\ UNCHANGED <<count, seen>>
    /\ UNCHANGED <<lastSent, nSent, since, inSync>>
    /\ UNCHANGED <<supVars, chanVars>>

\* rx.changed().await: Ok as soon as the version differs from the one seen
\* (the loop then reads again), Err once the sender is dropped (the loop
\* returns), pending otherwise.
SubChanged(s) ==
    /\ ProcessAlive
    /\ pc[s] = "wait"
    /\ IF seen[s] # version
       THEN /\ pc' = [pc EXCEPT ![s] = "send"]
            /\ count' = [count EXCEPT ![s] = counter]
            /\ seen' = [seen EXCEPT ![s] = BorrowAndUpdate(seen[s], version)]
       ELSE /\ SenderDropped
            /\ pc' = [pc EXCEPT ![s] = "exited"]
            /\ UNCHANGED <<count, seen>>
    /\ UNCHANGED <<lastSent, nSent, since, inSync>>
    /\ UNCHANGED <<supVars, chanVars>>

\* The process with one websocket client.
Next ==
    \/ \E l \in Listeners, r \in {"ok", "bind_err"} : ListenerStart(l, r)
    \/ \E l \in Listeners : ListenerShutdown(l)
    \/ \E l \in Listeners : ListenerStop(l)
    \/ \E termOk \in BOOLEAN, intOk \in BOOLEAN : WatcherStart(termOk, intOk)
    \/ \E sig \in Signals : Deliver(sig)
    \/ WatcherComplete
    \/ \E t \in Tasks : Panic(t)
    \/ JoinNext
    \/ PingAccept
    \/ Ping
    \/ \E s \in Solo : EventsAccept(s)
    \/ \E s \in Solo : Events(s)
    \/ \E s \in Solo : SubRead(s)
    \/ \E s \in Solo, ok \in BOOLEAN : SubSend(s, ok)
    \/ \E s \in Solo : SubChanged(s)

Spec == Init /\ [][Next]_vars

\* Scheduling: the runtime polls every task that can make progress, so each
\* step of the program itself is weakly fair.  What the environment does
\* (signals, new requests, panics) is not.
Fairness ==
    /\ \A l \in Listeners : WF_vars(\E r \in {"ok", "bind_err"} : ListenerStart(l, r))
    /\ \A l \in Listeners : WF_vars(ListenerShutdown(l))
    /\ \A l \in Listeners : WF_vars(ListenerStop(l))
    /\ WF_vars(\E termOk \in BOOLEAN, intOk \in BOOLEAN : WatcherStart(termOk, intOk))
    /\ WF_vars(WatcherComplete)
    /\ WF_vars(JoinNext)
    /\ WF_vars(Ping)
    /\ \A s \in Subs : WF_vars(Events(s))
    /\ \A s \in Subs : WF_vars(SubRead(s))
    /\ \A s \in Subs : WF_vars(\E ok \in BOOLEAN : SubSend(s, ok))
    /\ \A s \in Subs : WF_vars(SubChanged(s))

FairSpec == Spec /\ Fairness

\* The two listeners serving two websocket clients, with no shutdown and no
\* failure.
FanNext ==
    \/ \E l \in Listeners : ListenerStart(l, "ok")
    \/ PingAccept
    \/ Ping
    \/ \E s \in Subs : EventsAccept(s)
    \/ \E s \in Subs : Events(s)
    \/ \E s \in Subs : SubRead(s)
    \/ \E s \in Subs, ok \in BOOLEAN : SubSend(s, ok)
    \/ \E s \in Subs : SubChanged(s)

FanFairness ==
    /\ \A l \in Listeners : WF_vars(ListenerStart(l, "ok"))
    /\ WF_vars(Ping)
    /\ \A s \in Subs : WF_vars(Events(s))
    /\ \A s \in Subs : WF_vars(SubRead(s))
    /\ \A s \in Subs : WF_vars(\E ok \in BOOLEAN : SubSend(s, ok))
    /\ \A s \in Subs : WF_vars(SubChanged(s))

FanFairSpec == Init /\ [][FanNext]_vars /\ FanFairness

\* The process with two websocket clients, where both binds and both signal
\* registrations succeed, no task panics and the shutdown is asked for with
\* SIGTERM.
DuoNext ==
    \/ \E l \in Listeners : ListenerStart(l, "ok")
    \/ \E l \in Listeners : ListenerShutdown(l)
    \/ \E l \in Listeners : ListenerStop(l)
    \/ WatcherStart(TRUE, TRUE)
    \/ Deliver("SIGTERM")
    \/ WatcherComplete
    \/ JoinNext
    \/ PingAccept
    \/ Ping
    \/ \E s \in Subs : EventsAccept(s)
    \/ \E s \in Subs : Events(s)
    \/ \E s \in Subs : SubRead(s)
    \/ \E s \in Subs, ok \in BOOLEAN : SubSend(s, ok)
    \/ \E s \in Subs : SubChanged(s)

DuoSpec == Init /\ [][DuoNext]_vars

(***************************************************************************)
(* Properties.                                                             *)
(***************************************************************************)

Closed(s) == pc[s] \in {"exited", "dropped"}

\* C1: once every accepted increment call has completed, the counter equals
\* min(N, MAX) for the N calls made, whatever their interleaving: no
\* increment is lost.
C1_NoLostUpdate == pingInFlight = 0 => counter = Min(pingDone, MAX)

\* C1 witness: all the calls the environment makes have completed, more of
\* them than the cap.
C1_Witness == pingInFlight = 0 /\ pingDone = MaxPings /\ pingDone > MAX

\* C6: a subscriber after whose connection no increment has run has sent at
\* most one message, and that message is the current value, be the counter
\* 0 or already incremented when it connected.
C6_NoSpurious ==
    \A s \in Subs :
        (pc[s] \in {"start", "send", "wait"} /\ since[s] = 0) =>
            /\ nSent[s] <= 1
            /\ nSent[s] = 1 => lastSent[s] = counter

\* C6 witness: the subscriber connected after increments, sent its one
\* message and is waiting, with no increment since.
C6_Witness ==
    \E s \in Subs :
        /\ pc[s] = "wait"
        /\ since[s] = 0
        /\ nSent[s] = 1
        /\ counter > 0
        /\ seen[s] = version

\* C7: two consecutive messages to one subscriber never carry the same
\* value, for every sequence of increments, those at the cap included.
C7_NoRepeat ==
    [][\A s \in Subs :
          (nSent'[s] = nSent[s] + 1 /\ nSent[s] > 0) => lastSent'[s] # lastSent[s]]_vars

\* C8: while every increment comes only after the subscriber has sent the
\* value of the previous one, the subscriber's message number k + 1 is sent
\* after exactly k increments and carries the successor of the message
\* before it (up to the cap): every value in order, none skipped.
C8_InOrder ==
    [][\A s \in Subs :
          (inSync'[s] /\ nSent'[s] = nSent[s] + 1) =>
              /\ nSent'[s] = since'[s] + 1
              /\ lastSent'[s] = counter'
              /\ nSent[s] > 0 => lastSent'[s] = Min(lastSent[s] + 1, MAX)]_vars

\* C8 witness: three messages sent in step with two increments.
C8_Witness ==
    \E s \in Subs : inSync[s] /\ nSent[s] = 3 /\ since[s] = 2 /\ lastSent[s] = 2

\* C2: under fair scheduling a subscriber in its loop either has its
\* connection closed or comes to rest having sent the counter's latest value,
\* whatever intermediate values it skipped.
C2_EventuallyLatest ==
    \A s \in Subs :
        (pc[s] \in InLoop) ~> (Closed(s) \/ (Synced(s) /\ lastSent[s] = counter))

\* C2 witness: the subscriber sent two messages, the second the value of the
\* second increment, and was not in step with the increments.
C2_Witness ==
    \E s \in Subs :
        /\ Synced(s)
        /\ lastSent[s] = counter
        /\ pingDone = 2
        /\ since[s] = 2
        /\ nSent[s] = 2
        /\ ~inSync[s]

C4_OrderlyShutdown ==
    (/\ delivered # {}
     /\ ProcessAlive
     /\ \A l \in Listeners : task[l] = "serving")
    ~> (\/ /\ token
           /\ \A l \in Listeners : task[l] = "ok"
           /\ mainResult = "ok"
           /\ ExitCode = 0
        \/ \E t \in Tasks : task[t] = "panic")

\* C4 witness: main returned Ok after a notification was delivered.
C4_Witness ==
    /\ delivered # {}
    /\ mainResult = "ok"
    /\ \A t \in Tasks : task[t] = "ok"

C9_SupervisorResult ==
    /\ mainResult = "ok" => \A t \in Tasks : task[t] = "ok"
    /\ mainResult \notin {"running", "ok"} =>
          /\ mainErrOf \in Tasks
          /\ task[mainErrOf] \in Failures
          /\ mainResult = "join_err" <=> task[mainErrOf] = "panic"
          /\ mainResult = "bind_err" <=> task[mainErrOf] = "bind_err"
          /\ \A t \in Tasks \ {mainErrOf} :
                task[t] \in Failures => \E i \in 1..Len(joinQueue) : joinQueue[i] = t

\* C9 witness: main returned the wrapped JoinError of one unit while another
\* unit had failed later.
C9_Witness ==
    /\ mainResult = "join_err"
    /\ \E t \in Tasks \ {mainErrOf} : task[t] = "bind_err"

\* C10: a listener whose bind failed has called bind once, stays failed, and
\* the process ends with a failure outcome whatever the other units do.
C10_BindFailureFatal ==
    /\ [](\A l \in Listeners : task[l] = "bind_err" => (binds[l] = 1 /\ mainResult # "ok"))
    /\ [][\A l \in Listeners : task[l] = "bind_err" => task'[l] = "bind_err"]_vars
    /\ \A l \in Listeners :
          (task[l] = "bind_err") ~> (mainResult \notin {"running", "ok"} /\ ExitCode # 0)

\* C10 witness: the process ended in failure on a bind error while the other
\* listener was serving.
C10_Witness ==
    \E l \in Listeners :
        /\ task[l] = "bind_err"
        /\ mainResult = "bind_err"
        /\ mainErrOf = l
        /\ binds[l] = 1
        /\ \E k \in Listeners : task[k] = "aborted" /\ binds[k] = 1

C12_OnlyAfterSignal == (task["signal"] = "ok" \/ token) => delivered # {}

\* C13: a watcher whose SIGTERM registration failed waits for SIGINT only: no
\* SIGTERM reaches it, it completes only on a delivered SIGINT, and under
\* fair scheduling a delivered SIGINT makes it complete and cancel the token
\* (unless the task panics or main has returned).
C13_DegradesToSigint ==
    /\ [](task["signal"] = "sigint_only" => delivered \subseteq {"SIGINT"})
    /\ [][(task["signal"] = "sigint_only" /\ task'["signal"] = "ok") =>
             ("SIGINT" \in delivered /\ token')]_vars
    /\ (task["signal"] = "sigint_only" /\ "SIGINT" \in delivered)
          ~> (\/ task["signal"] = "ok" /\ token
              \/ task["signal"] = "panic"
              \/ ~ProcessAlive)

\* C13 witness: the degraded watcher has been sent SIGINT.
C13_Witness ==
    /\ task["signal"] = "sigint_only"
    /\ delivered = {"SIGINT"}
    /\ ~token

\* C14: cancel() is called at most once, by the one completion of
\* shutdown_signal, also when both notifications are delivered.
C14_FiresOnce ==
    /\ cancelCalls <= 1
    /\ token <=> cancelCalls = 1
    /\ cancelCalls = 1 => task["signal"] = "ok"

\* C14 witness: both notifications were delivered and cancel() ran once.
C14_Witness ==
    /\ delivered = {"SIGINT", "SIGTERM"}
    /\ cancelCalls = 1
    /\ token

\* C15: every completed increment sets the counter to min(value + 1, MAX):
\* one more below MAX, unchanged at MAX, never a smaller value, and the
\* counter never exceeds MAX.
C15_SaturatingIncrement ==
    /\ [][pingDone' # pingDone =>
             /\ counter' = Min(counter + 1, MAX)
             /\ counter < MAX => counter' = counter + 1
             /\ counter = MAX => counter' = MAX
             /\ counter' >= counter]_vars
    /\ [](counter \in 0..MAX)

\* C15 witness: an increment has been applied at the cap.
C15_Witness ==
    /\ counter = MAX
    /\ pingDone > MAX

\* C16: no missed wakeup.  A subscriber waiting in rx.changed() while the
\* counter differs from the value it last read has the change pending (the
\* version it has seen is not the channel's), its wake-up reads the current
\* value, and under fair scheduling a pending change takes it on to the send
\* (unless the process ends first).
C16_NoMissedWakeup ==
    /\ [](\A s \in Subs : (pc[s] = "wait" /\ count[s] # counter) => seen[s] # version)
    /\ [][\A s \in Subs : (pc[s] = "wait" /\ pc'[s] = "send") =>
             (seen[s] # version /\ count'[s] = counter /\ seen'[s] = version)]_vars
    /\ \A s \in Solo : (pc[s] = "wait" /\ seen[s] # version) ~> (pc[s] = "send" \/ ~ProcessAlive)

\* C16 witness: the one increment since the subscriber connected came after
\* its read and before its wait, and the wait finds the change pending.
C16_Witness ==
    \E s \in Solo :
        /\ pc[s] = "wait"
        /\ nSent[s] = 1
        /\ since[s] = 1
        /\ ~inSync[s]
        /\ seen[s] # version
        /\ lastSent[s] # counter

\* C17: fan-out.  One increment makes the change pending for every
\* subscriber that is waiting, however many there are; a subscriber's wake-up
\* reads the current value and takes nothing from the other subscribers; and
\* under fair scheduling every subscriber with a pending change reaches its
\* send.
C17_FanOut ==
    /\ [][version' # version =>
             \A s \in Subs : pc[s] = "wait" => (pc'[s] = "wait" /\ seen'[s] # version')]_vars
    /\ [][\A s \in Subs : (pc[s] = "wait" /\ pc'[s] = "send") =>
             /\ count'[s] = counter
             /\ version' = version
             /\ \A r \in Subs \ {s} : seen'[r] = seen[r] /\ pc'[r] = pc[r]]_vars
    /\ \A s \in Subs : (pc[s] = "wait" /\ seen[s] # version) ~> pc[s] = "send"

\* C17 witness: the one increment since the two subscribers connected found
\* both of them waiting, and both have woken and hold the new value to send.
C17_Witness ==
    /\ pingDone >= 1
    /\ \A s \in Subs :
          /\ pc[s] = "send"
          /\ nSent[s] = 1
          /\ since[s] = 1
          /\ inSync[s]
          /\ count[s] = counter
          /\ lastSent[s] # counter

\* C18: a failed send ends only the loop of the subscriber it happened to.
\* The step leaves the counter, the channel, the tasks, the token, the join
\* queue, main's result and every other subscriber as they were; and with no
\* bind error and no panic main never returns a failure.
C18_SendFailureLocal ==
    /\ [][\A s \in Subs : (pc[s] = "send" /\ pc'[s] = "exited") =>
             /\ counter' = counter
             /\ version' = version
             /\ task' = task
             /\ token' = token
             /\ cancelCalls' = cancelCalls
             /\ joinQueue' = joinQueue
             /\ mainResult' = mainResult
             /\ mainErrOf' = mainErrOf
             /\ \A r \in Subs \ {s} :
                   /\ pc'[r] = pc[r]
                   /\ seen'[r] = seen[r]
                   /\ count'[r] = count[r]
                   /\ lastSent'[r] = lastSent[r]
                   /\ nSent'[r] = nSent[r]]_vars
    /\ [](mainResult \in {"running", "ok"})

\* C18 witness: the first subscriber's first send failed; the second goes on
\* receiving increments from two serving listeners, the token not cancelled.
C18_Witness ==
    /\ pc[1] = "exited"
    /\ nSent[1] = 0
    /\ pc[2] = "wait"
    /\ nSent[2] >= 2
    /\ lastSent[2] = counter
    /\ \A l \in Listeners : task[l] = "serving"
    /\ ~token
    /\ mainResult = "running"

\* C19: the token is monotone (no step takes it from cancelled back to
\* active) and cancelling a cancelled token leaves it as it is; the counter
\* never decreases and changes only in a step of the increment handler.
C19_MonotoneSingleWriter ==
    /\ [][token => token']_vars
    /\ [](token => Cancel(token) = token)
    /\ [][counter' >= counter]_vars
    /\ [][counter' # counter =>
             (pingInFlight > 0 /\ pingDone' = pingDone + 1 /\ pingInFlight' = pingInFlight - 1)]_vars

\* C19 witness: increments were applied, the token was cancelled and the
\* process has shut down with both still in place.
C19_Witness ==
    /\ token
    /\ counter > 0
    /\ mainResult = "ok"

\* C20: what a subscriber sends is what it last read, every read takes the
\* counter's current value while the subscriber is in its loop, the values
\* sent never decrease, and a value sent lies between the counter's value
\* when the subscriber connected and its current value.
C20_SentValuesMonotone ==
    /\ [][\A s \in Subs : count'[s] # count[s] =>
             (pc[s] \in {"start", "wait"} /\ count'[s] = counter)]_vars
    /\ [][\A s \in Subs : nSent'[s] # nSent[s] =>
             /\ lastSent'[s] = count[s]
             /\ nSent[s] > 0 => lastSent'[s] >= lastSent[s]
             /\ lastSent'[s] <= counter
             /\ lastSent'[s] >= counter - since[s]]_vars
    /\ [](\A s \in Subs : pc[s] = "send" => (count[s] <= counter /\ count[s] >= counter - since[s]))

\* C20 witness: both subscribers have sent several values across increments,
\* the first connected before the second.
C20_Witness ==
    /\ \A s \in Subs : nSent[s] >= 2 /\ lastSent[s] = counter
    /\ since[1] > since[2]
    /\ since[2] >= 1

====
